---- MODULE Spec2Model ----
(***************************************************************************)
(* A model of the docker intercepting proxy of httptoolkit-server:         *)
(*   - destroyable(server): the connection tracker and its destroy()       *)
(*     (destroyable-server.ts)                                             *)
(*   - createDockerProxy: the request handler, the response relay and the  *)
(*     upgrade tunnel (docker-proxy.ts)                                    *)
(***************************************************************************)
EXTENDS Integers, Sequences, FiniteSets, TLC

\* ------------------------------------------------------------------ bounds

\* How many downstream connections a run accepts.
MaxConns == 3
\* How many times destroy() is called in a run.
MaxDestroyCalls == 2
\* How many distinct remote endpoints TCP clients connect from.
MaxEndpoints == 2
\* How many bytes each side of an upgraded exchange sends after the handshake.
MaxTunnelBytes == 2
\* How many mock server ports there are.
MaxPorts == 2
\* How many times mock servers are started in a run.
MaxStarts == 2
\* How many launcher promises getLauncher and the cache update create in a run.
MaxPromises == 3
\* How many times getLauncher is called in a run.
MaxCalls == 4

Conns == 1..MaxConns
NoConn == 0

\* ------------------------------------------------------------------ tracker

VARIABLES
    listenKind,     \* what the wrapped server listens on: "ipc" (pipe / domain socket) or "tcp"
    listener,       \* "listening", "closing" (close() called, not drained), "closed"
    sock,           \* per connection: "unborn", "open", "closing" ('close' pending), "closed"
    remote,         \* per connection: the key computed at accept time
    connections,    \* the map of destroyable(): key -> connection, NoConn when absent
    destroyCalls,   \* per connection: how many times conn.destroy() has been invoked
    calls           \* the destroy() calls made so far, one record each

trackerVars == <<listenKind, listener, sock, remote, connections, destroyCalls, calls>>

\* ------------------------------------------------------------------ proxy

VARIABLES
    pc,             \* where the handler of the exchange stands
    req,            \* the inbound request (http.IncomingMessage) and the head of an upgrade
    config,         \* the parsed body of an intercepted create request
    bodySrc,        \* the chunks of bodyStream not yet piped into dockerReq
    dockerReq,      \* the upstream request as the daemon observes it
    dockerRes,      \* the daemon's answer: head, body still to come, upgrade head
    res,            \* the downstream response as the client observes it
    downWire,       \* upgrade: the bytes the client has received on its raw socket
    upWire,         \* upgrade: the bytes the daemon has received on its raw socket
    downIn,         \* upgrade: bytes the client sent, not yet piped upstream
    upIn,           \* upgrade: bytes the daemon sent, not yet piped downstream
    clientSent,     \* upgrade: every byte the client sent after the handshake
    daemonSent      \* upgrade: every byte the daemon sent after the handshake

proxyVars == <<pc, req, config, bodySrc, dockerReq, dockerRes, res,
               downWire, upWire, downIn, upIn, clientSent, daemonSent>>

\* ------------------------------------------------------------------ proxy: connections

VARIABLES
    downSock,       \* the downstream connection (res / socket): "open", "ended", "destroyed", "closed"
    upSock,         \* the upstream connection (dockerReq / dockerRes / dockerSocket), once sent
    fault           \* the connection fault of the exchange, if one happened

faultVars == <<downSock, upSock, fault>>

\* ------------------------------------------------------------------ proxies paired with mock servers

VARIABLES
    platform,       \* process.platform: "win32" or "linux"
    mock,           \* per port: the mock server is "stopped" or "running"
    file,           \* per port: a socket file is "absent" or "present" at the listen path
    tasks,          \* the createDockerProxy calls made so far, one record each
    dockerProxies,  \* the map of pairWithInterceptingDockerProxies: port -> call, 0 when absent
    shutdown        \* whether the shutdown handler has run

pairVars == <<platform, mock, file, tasks, dockerProxies, shutdown>>

\* ------------------------------------------------------------------ browser launcher

VARIABLES
    launcher,       \* the cached promise of getLauncher: its number, 0 when undefined
    promises,       \* the launcher promises created so far, one record each
    returned        \* what the getLauncher calls so far have returned, one record each

launcherVars == <<launcher, promises, returned>>

exceptTracker == <<proxyVars, faultVars, pairVars, launcherVars>>
exceptProxy == <<trackerVars, pairVars, launcherVars>>
exceptExchange == <<exceptProxy, faultVars>>
exceptPair == <<trackerVars, proxyVars, faultVars, launcherVars>>
exceptLauncher == <<trackerVars, proxyVars, faultVars, pairVars>>

vars == <<trackerVars, proxyVars, faultVars, pairVars, launcherVars>>

\* remoteAddress and remotePort are undefined on a pipe or domain socket.
UndefinedKey == "undefined:undefined"
TcpKeys == {"10.0.0." \o ToString(i) \o ":5000" : i \in 1..MaxEndpoints}
Keys == TcpKeys \cup {UndefinedKey}

\* const key = conn.remoteAddress + ':' + conn.remotePort
connKey(kind, endpoint) ==
    IF kind = "ipc" THEN UndefinedKey ELSE endpoint

\* connections[key] = conn
onConnection(conns, key, c) ==
    [conns EXCEPT ![key] = c]

\* A close handler that leaves the entry in place.
onCloseKeeps(conns, key) ==
    conns

\* delete connections[key]
onClose(conns, key) ==
    [conns EXCEPT ![key] = NoConn]

\* A loop over every key ever usable, present in the map or not.
destroyKeysAll(conns) ==
    Keys

\* for (let key in connections)
destroyKeys(conns) ==
    {k \in Keys : conns[k] # NoConn}

\* A callback that ignores the error of close().
settleIgnoresErr(err) ==
    "resolved"

\* if (err) reject(err); else resolve();
settle(err) ==
    IF err THEN "rejected" ELSE "resolved"

\* The endpoints a new connection can come from: a TCP peer cannot reuse an
\* address:port pair that a connection of this server still holds.
FreeEndpoints ==
    IF listenKind = "ipc" THEN {UndefinedKey}
    ELSE {k \in TcpKeys : \A c \in Conns : sock[c] \in {"open", "closing"} => remote[c] # k}

TrackerInit ==
    /\ listenKind \in {"ipc", "tcp"}
    /\ listener = "listening"
    /\ sock = [c \in Conns |-> "unborn"]
    /\ remote = [c \in Conns |-> UndefinedKey]
    /\ connections = [k \in Keys |-> NoConn]
    /\ destroyCalls = [c \in Conns |-> 0]
    /\ calls = <<>>

\* server.on('connection', ...): the listener accepts the next connection.
Accept(c, endpoint) ==
    /\ listener = "listening"
    /\ sock[c] = "unborn"
    /\ \A d \in Conns : d < c => sock[d] # "unborn"
    /\ endpoint \in FreeEndpoints
    /\ sock' = [sock EXCEPT ![c] = "open"]
    /\ remote' = [remote EXCEPT ![c] = connKey(listenKind, endpoint)]
    /\ connections' = onConnection(connections, connKey(listenKind, endpoint), c)
    /\ UNCHANGED <<listenKind, listener, destroyCalls, calls>>
    /\ UNCHANGED exceptTracker

\* The client (or a transport error) closes an open connection on its own;
\* the socket's 'close' event follows later.
PeerClose(c) ==
    /\ sock[c] = "open"
    /\ sock' = [sock EXCEPT ![c] = "closing"]
    /\ UNCHANGED <<listenKind, listener, remote, connections, destroyCalls, calls>>
    /\ UNCHANGED exceptTracker

\* conn.on('close', ...)
CloseEvent(c) ==
    /\ sock[c] = "closing"
    /\ sock' = [sock EXCEPT ![c] = "closed"]
    /\ connections' = onClose(connections, remote[c])
    /\ UNCHANGED <<listenKind, listener, remote, destroyCalls, calls>>
    /\ UNCHANGED exceptTracker

\* The sockets the loop of destroy() calls destroy() on.
LoopSockets == {connections[k] : k \in destroyKeys(connections)} \ {NoConn}
\* connections[key].destroy() on an absent entry is a TypeError.
LoopThrows == \E k \in destroyKeys(connections) : connections[k] = NoConn

\* destroy(): server.close(cb), then conn.destroy() on every entry of the map.
Destroy ==
    /\ Len(calls) < MaxDestroyCalls
    /\ listener' = IF listener = "listening" THEN "closing" ELSE listener
    /\ destroyCalls' = [c \in Conns |->
            IF c \in LoopSockets THEN destroyCalls[c] + 1 ELSE destroyCalls[c]]
    /\ sock' = [c \in Conns |->
            IF c \in LoopSockets /\ sock[c] = "open" THEN "closing" ELSE sock[c]]
    /\ calls' = Append(calls,
            [ state |-> IF LoopThrows THEN "rejected" ELSE "pending",
              threw |-> LoopThrows,
              \* close() reports an error when the server was not listening
              closeErr |-> (listener # "listening"),
              closeSignalled |-> FALSE,
              openAtCall |-> {c \in Conns : sock[c] = "open"},
              trackedAtCall |-> {connections[k] : k \in Keys} \ {NoConn},
              destroyedByCall |-> LoopSockets ])
    /\ UNCHANGED <<listenKind, remote, connections>>
    /\ UNCHANGED exceptTracker

Drained == \A c \in Conns : sock[c] \in {"unborn", "closed"}
PendingCalls == {i \in 1..Len(calls) : calls[i].state = "pending"}

\* The listener's 'close' event: every callback given to server.close() runs.
ListenerCloseEvent ==
    /\ listener = "closing" \/ (listener = "closed" /\ PendingCalls # {})
    /\ Drained
    /\ listener' = "closed"
    /\ calls' = [i \in 1..Len(calls) |->
            IF calls[i].state = "pending"
            THEN [calls[i] EXCEPT !.state = settle(calls[i].closeErr),
                                  !.closeSignalled = TRUE]
            ELSE calls[i]]
    /\ UNCHANGED <<listenKind, sock, remote, connections, destroyCalls>>
    /\ UNCHANGED exceptTracker

TrackerNext ==
    \/ \E c \in Conns, e \in Keys : Accept(c, e)
    \/ \E c \in Conns : PeerClose(c)
    \/ \E c \in Conns : CloseEvent(c)
    \/ Destroy
    \/ ListenerCloseEvent

\* ------------------------------------------------------------------ proxy: data

\* createDockerProxy(proxyPort, httpsConfig)
proxyPort == 8000
certPath == "ca.pem"

\* A URL is a sequence of tokens: "/" separates the segments of the path and
\* "?" starts the query.
Urls == {
    <<"/", "v1.41", "/", "containers", "/", "create">>,
    <<"/", "v1.41", "/", "containers", "/", "create", "?", "name=web">>,
    <<"/", "v1.41", "/", "containers", "/", "json">>,
    <<"/", "containers", "/", "create">>,
    <<"/", "qwe", "/", "v1.41", "/", "containers", "/", "create">>,
    <<"/", "qwe", "/", "containers", "/", "create">>,
    <<"/", "qwe", "rty", "/", "info">> }

Methods == {"GET", "POST"}

\* req.headers: the names are lower-cased by the HTTP parser, in arrival order.
HeaderSets == {
    << <<"host", "docker">>, <<"content-length", "25">>, <<"content-type", "application/json">> >>,
    << <<"content-length", "0">>, <<"host", "docker">> >>,
    << <<"host", "docker">>, <<"connection", "Upgrade">>, <<"upgrade", "tcp">> >> }

\* JSON text is a sequence of tokens; a body is a sequence of chunks of text.
Whitespace == {" "}
JsonKeys == {"\"Image\"", "\"Env\"", "\"Binds\""}
JsonValues == {"\"alpine\"", "\"none\"", "\"image-env\"", "\"ca.pem\"", "8000"}
Bodies == {
    <<>>,
    << <<"{", "\"Image\"", ":", "\"alpine\"", "}">> >>,
    << <<"{", " ", "\"Image\"", ":">>, <<" ", "\"alpine\"", "}">> >>,
    << <<"{", "\"Image\"">> >> }

\* What image inspection yields: metadata, or nothing when the lookup failed.
ImageConfigs == {"undefined", "\"image-env\""}
\* How docker.getImage(config.Image).inspect() settles: with metadata, or
\* rejected (image absent, daemon error).
InspectOutcomes == {[ok |-> i # "undefined", value |-> i] : i \in ImageConfigs}

\* What the daemon answers with.
ResponseHeaderSets == {
    << <<"content-type", "application/json">>, <<"content-length", "2">> >>,
    << <<"server", "Docker">>, <<"api-version", "1.41">> >> }
ResponseBodies == { <<>>, << <<"o">>, <<"k">> >> }
Responses ==
    [ statusCode : {200, 404}, statusMessage : {"OK", "Not Found"},
      headers : ResponseHeaderSets, body : ResponseBodies, ends : BOOLEAN ]
UpgradeResponses ==
    [ statusCode : {101}, statusMessage : {"UPGRADED"},
      headers : { << <<"connection", "Upgrade">>, <<"upgrade", "tcp">> >>,
                  << <<"upgrade", "tcp">> >> } ]
Bytes == {"a", "b"}
Heads == { <<>>, <<"h">> }

RECURSIVE Concat(_)
\* Buffer.concat of the chunks of a stream
Concat(chunks) ==
    IF chunks = <<>> THEN <<>> ELSE Head(chunks) \o Concat(Tail(chunks))

\* ------------------------------------------------------------------ proxy: pure functions

\* new URL(req.url!, 'http://localhost').pathname
pathname(url) ==
    LET qs == {i \in 1..Len(url) : url[i] = "?"}
    IN IF qs = {} THEN url
       ELSE SubSeq(url, 1, (CHOOSE i \in qs : \A j \in qs : i <= j) - 1)

\* CREATE_CONTAINER_MATCHER = /^\/[^\/]+\/containers\/create/
CREATE_CONTAINER_MATCHER(p) ==
    \E n \in 1..Len(p) :
        /\ Len(p) >= n + 5
        /\ p[1] = "/"
        /\ \A i \in 2..(n + 1) : p[i] # "/"
        /\ p[n + 2] = "/"
        /\ p[n + 3] = "containers"
        /\ p[n + 4] = "/"
        /\ p[n + 5] = "create"

\* req.url!.replace(/^\/qwe/, '')
stripPrefix(url) ==
    IF Len(url) >= 2 /\ url[1] = "/" /\ url[2] = "qwe"
    THEN SubSeq(url, 3, Len(url))
    ELSE url

\* _.omit(req.headers, 'content-length')
omit(headers, name) ==
    LET keep(h) == h[1] # name IN SelectSeq(headers, keep)

\* JSON.parse: an object of string-valued members, whitespace ignored.
JSONparse(text) ==
    LET notWs(t) == t \notin Whitespace
        t == SelectSeq(text, notWs)
        n == (Len(t) - 1) \div 4
        wellFormed ==
            /\ Len(t) >= 5
            /\ Len(t) = 4 * n + 1
            /\ t[1] = "{"
            /\ t[Len(t)] = "}"
            /\ \A i \in 1..n :
                /\ t[4 * i - 2] \in JsonKeys
                /\ t[4 * i - 1] = ":"
                /\ t[4 * i] \in JsonValues
                /\ i < n => t[4 * i + 1] = ","
    IN IF wellFormed
       THEN [ok |-> TRUE, value |-> [i \in 1..n |-> <<t[4 * i - 2], t[4 * i]>>]]
       ELSE [ok |-> FALSE, value |-> <<>>]

RECURSIVE members(_)
members(pairs) ==
    IF pairs = <<>> THEN <<>>
    ELSE <<Head(pairs)[1], ":", Head(pairs)[2]>>
         \o (IF Tail(pairs) = <<>> THEN <<>> ELSE <<",">> \o members(Tail(pairs)))

\* JSON.stringify
JSONstringify(pairs) ==
    <<"{">> \o members(pairs) \o <<"}">>

\* transformContainerCreationConfig(config, imageConfig,
\*     { interceptionType: 'mount', certPath, proxyPort })
transformContainerCreationConfig(containerConfig, imageConfig, opts) ==
    containerConfig
        \o << <<"\"Env\"", IF imageConfig = "undefined" THEN ToString(opts.proxyPort) ELSE imageConfig>>,
              <<"\"Binds\"", "\"" \o opts.certPath \o "\"">> >>

\* An inspection whose rejection is not caught.
catchMissing(outcome) ==
    outcome

\* .catch(() => undefined)
catchUndefined(outcome) ==
    IF outcome.ok THEN outcome ELSE [ok |-> TRUE, value |-> "undefined"]

\* http.createServer(handler) + server.on('upgrade', ...): a request that asks
\* for an upgrade is given to the 'upgrade' listener, any other to the handler.
routedAs(headers) ==
    IF \E i \in 1..Len(headers) : headers[i][1] = "upgrade"
    THEN "upgrade" ELSE "request"

\* sendToDocker that forwards the inbound headers untouched.
sendToDockerAllHeaders(r, bodyStream) ==
    [ dockerReq |-> [sent |-> TRUE, method |-> r.method, path |-> stripPrefix(r.url),
                     headers |-> r.headers, body |-> <<>>, ended |-> FALSE],
      bodySrc |-> bodyStream ]

\* sendToDocker(req, bodyStream)
sendToDocker(r, bodyStream) ==
    [ dockerReq |-> [sent |-> TRUE, method |-> r.method, path |-> stripPrefix(r.url),
                     headers |-> omit(r.headers, "content-length"),
                     body |-> <<>>, ended |-> FALSE],
      bodySrc |-> bodyStream ]

\* res.writeHead(statusCode, statusMessage, headers): kept until the first write
writeHead(r, statusCode, statusMessage, headers) ==
    [r EXCEPT !.head = "buffered", !.statusCode = statusCode,
              !.statusMessage = statusMessage, !.headers = headers]

\* A relay without the flushHeaders() call.
flushHeadersMissing(r) ==
    r

\* res.flushHeaders()
flushHeaders(r) ==
    IF r.head = "buffered" THEN [r EXCEPT !.head = "sent"] ELSE r

\* res.write(chunk), as dockerRes.pipe(res) calls it: the head goes out first
resWrite(r, chunk) ==
    [r EXCEPT !.head = "sent", !.body = Append(@, chunk)]

\* res.end(), as dockerRes.pipe(res) calls it
resEnd(r) ==
    [r EXCEPT !.head = "sent", !.ended = TRUE]

RECURSIVE headerLines(_)
\* Object.keys(dockerRes.headers).map((key) => `${key}: ${headers[key]}\r\n`).join("")
headerLines(headers) ==
    IF headers = <<>> THEN <<>>
    ELSE <<Head(headers)[1], ": ", Head(headers)[2], "\r\n">> \o headerLines(Tail(headers))

\* `HTTP/1.1 ${statusCode} ${statusMessage}\r\n` + headers + "\r\n"
upgradeHead(r) ==
    <<"HTTP/1.1 ", ToString(r.statusCode), " ", r.statusMessage, "\r\n">>
        \o headerLines(r.headers) \o <<"\r\n">>

\* The upstream head written before the status line.
downstreamWritesSwapped(r, dockerHead) ==
    dockerHead \o upgradeHead(r)

\* socket.write(status line and headers); socket.write(dockerHead)
downstreamWrites(r, dockerHead) ==
    upgradeHead(r) \o dockerHead

\* dockerSocket.write(head)
upstreamWrites(head) ==
    head

\* ------------------------------------------------------------------ proxy: state

NoRequest ==
    [kind |-> "none", method |-> "", url |-> <<>>, headers |-> <<>>,
     body |-> <<>>, head |-> <<>>, sentBody |-> <<>>]
NoDockerReq ==
    [sent |-> FALSE, method |-> "", path |-> <<>>, headers |-> <<>>,
     body |-> <<>>, ended |-> FALSE]
NoDockerRes ==
    [arrived |-> FALSE, statusCode |-> 0, statusMessage |-> "", headers |-> <<>>,
     body |-> <<>>, remaining |-> <<>>, ends |-> FALSE, head |-> <<>>]
NoRes ==
    [head |-> "none", statusCode |-> 0, statusMessage |-> "", headers |-> <<>>,
     body |-> <<>>, ended |-> FALSE]
NoConfig ==
    [parsed |-> <<>>, imageConfig |-> "undefined", lookupFailed |-> FALSE]

NoFault ==
    [side |-> "none", how |-> "none", at |-> "none"]

ProxyInit ==
    /\ downSock = "open"
    /\ upSock = "open"
    /\ fault = NoFault
    /\ pc = "idle"
    /\ req = NoRequest
    /\ config = NoConfig
    /\ bodySrc = <<>>
    /\ dockerReq = NoDockerReq
    /\ dockerRes = NoDockerRes
    /\ res = NoRes
    /\ downWire = <<>>
    /\ upWire = <<>>
    /\ downIn = <<>>
    /\ upIn = <<>>
    /\ clientSent = <<>>
    /\ daemonSent = <<>>

\* ------------------------------------------------------------------ proxy: handlers

\* A client sends a request. A request asking for an upgrade has no body of
\* its own: what follows its headers is the head of the upgrade.
ClientRequest(method, url, headers, body) ==
    /\ pc = "idle"
    /\ pc' = "received"
    /\ req' = [ kind |-> routedAs(headers), method |-> method, url |-> url,
                headers |-> headers,
                body |-> IF routedAs(headers) = "upgrade" THEN <<>> ELSE body,
                head |-> IF routedAs(headers) = "upgrade" THEN Concat(body) ELSE <<>>,
                sentBody |-> body ]
    /\ UNCHANGED <<config, bodySrc, dockerReq, dockerRes, res,
                   downWire, upWire, downIn, upIn, clientSent, daemonSent>>
    /\ UNCHANGED exceptExchange

\* http.createServer(async (req, res) => ...) up to its first await, or up to
\* sendToDocker when the path is not a create.
HandleRequest ==
    /\ pc = "received"
    /\ req.kind = "request"
    /\ IF CREATE_CONTAINER_MATCHER(pathname(req.url))
       THEN /\ pc' = "buffering"
            /\ UNCHANGED <<dockerReq, bodySrc>>
       ELSE /\ pc' = "sent"
            /\ dockerReq' = sendToDocker(req, req.body).dockerReq
            /\ bodySrc' = sendToDocker(req, req.body).bodySrc
    /\ UNCHANGED <<req, config, dockerRes, res,
                   downWire, upWire, downIn, upIn, clientSent, daemonSent>>
    /\ UNCHANGED exceptExchange

\* await getRawBody(req), then JSON.parse: a parse error rejects the promise
\* of the handler, which nothing awaits. The runtime either only reports an
\* unhandled rejection (the response stays as it is) or terminates the process.
BodyBuffered ==
    /\ pc = "buffering"
    /\ LET parsed == JSONparse(Concat(req.body))
       IN IF parsed.ok
          THEN /\ pc' = "inspecting"
               /\ config' = [config EXCEPT !.parsed = parsed.value]
               /\ UNCHANGED downSock
          ELSE /\ pc' = "failed"
               /\ downSock' \in {downSock, "closed"}
               /\ UNCHANGED config
    /\ UNCHANGED <<req, bodySrc, dockerReq, dockerRes, res,
                   downWire, upWire, downIn, upIn, clientSent, daemonSent>>
    /\ UNCHANGED <<exceptProxy, upSock, fault>>

\* await docker.getImage(config.Image).inspect().catch(() => undefined), then
\* the transformation and sendToDocker(req, Readable.from(JSON.stringify(...))).
InspectDone(outcome) ==
    /\ pc = "inspecting"
    /\ LET imageConfig == catchUndefined(outcome)
           transformedConfig ==
               transformContainerCreationConfig(config.parsed, imageConfig.value,
                   [interceptionType |-> "mount", certPath |-> certPath,
                    proxyPort |-> proxyPort])
           out == sendToDocker(req, <<JSONstringify(transformedConfig)>>)
       IN IF imageConfig.ok
          THEN /\ pc' = "sent"
               /\ config' = [config EXCEPT !.imageConfig = imageConfig.value,
                                            !.lookupFailed = ~outcome.ok]
               /\ dockerReq' = out.dockerReq
               /\ bodySrc' = out.bodySrc
          ELSE /\ pc' = "failed"
               /\ config' = [config EXCEPT !.lookupFailed = TRUE]
               /\ UNCHANGED <<dockerReq, bodySrc>>
    /\ UNCHANGED <<req, dockerRes, res,
                   downWire, upWire, downIn, upIn, clientSent, daemonSent>>
    /\ UNCHANGED exceptExchange

\* server.on('upgrade', (req, socket, head) => ...): sendToDocker(req)
HandleUpgrade ==
    /\ pc = "received"
    /\ req.kind = "upgrade"
    /\ pc' = "sent"
    /\ dockerReq' = sendToDocker(req, req.body).dockerReq
    /\ bodySrc' = sendToDocker(req, req.body).bodySrc
    /\ UNCHANGED <<req, config, dockerRes, res,
                   downWire, upWire, downIn, upIn, clientSent, daemonSent>>
    /\ UNCHANGED exceptExchange

\* bodyStream.pipe(dockerReq): the next chunk, or the end of the stream.
PipeRequestBody ==
    /\ dockerReq.sent
    /\ ~dockerReq.ended
    /\ IF bodySrc = <<>>
       THEN /\ dockerReq' = [dockerReq EXCEPT !.ended = TRUE]
            /\ UNCHANGED bodySrc
       ELSE /\ dockerReq' = [dockerReq EXCEPT !.body = Append(@, Head(bodySrc))]
            /\ bodySrc' = Tail(bodySrc)
    /\ UNCHANGED <<pc, req, config, dockerRes, res,
                   downWire, upWire, downIn, upIn, clientSent, daemonSent>>
    /\ UNCHANGED exceptExchange

\* dockerReq.on('response', ...): writeHead, pipe, flushHeaders. The request
\* of the upgrade handler has no 'response' listener.
DaemonResponds(r) ==
    /\ pc = "sent"
    /\ dockerRes' = [arrived |-> TRUE, statusCode |-> r.statusCode,
                     statusMessage |-> r.statusMessage, headers |-> r.headers,
                     body |-> r.body, remaining |-> r.body, ends |-> r.ends,
                     head |-> <<>>]
    /\ IF req.kind = "request"
       THEN /\ pc' = "relaying"
            /\ res' = flushHeaders(
                        writeHead(res, r.statusCode, r.statusMessage, r.headers))
       ELSE /\ pc' = "unanswered"
            /\ UNCHANGED res
    /\ UNCHANGED <<req, config, bodySrc, dockerReq,
                   downWire, upWire, downIn, upIn, clientSent, daemonSent>>
    /\ UNCHANGED exceptExchange

\* dockerRes.pipe(res): the next chunk of the body, or its end.
PipeResponseBody ==
    /\ pc = "relaying"
    /\ dockerRes.remaining # <<>> \/ dockerRes.ends
    /\ IF dockerRes.remaining # <<>>
       THEN /\ res' = resWrite(res, Head(dockerRes.remaining))
            /\ dockerRes' = [dockerRes EXCEPT !.remaining = Tail(@)]
            /\ UNCHANGED pc
       ELSE /\ res' = resEnd(res)
            /\ pc' = "done"
            /\ UNCHANGED dockerRes
    /\ UNCHANGED <<req, config, bodySrc, dockerReq,
                   downWire, upWire, downIn, upIn, clientSent, daemonSent>>
    /\ UNCHANGED exceptExchange

\* dockerReq.on('upgrade', (dockerRes, dockerSocket, dockerHead) => ...)
DaemonUpgrades(r, dockerHead) ==
    /\ pc = "sent"
    /\ req.kind = "upgrade"
    /\ pc' = "tunneling"
    /\ dockerRes' = [arrived |-> TRUE, statusCode |-> r.statusCode,
                     statusMessage |-> r.statusMessage, headers |-> r.headers,
                     body |-> <<>>, remaining |-> <<>>, ends |-> FALSE,
                     head |-> dockerHead]
    /\ downWire' = downWire \o downstreamWrites(r, dockerHead)
    /\ upWire' = upWire \o upstreamWrites(req.head)
    /\ UNCHANGED <<req, config, bodySrc, dockerReq, res,
                   downIn, upIn, clientSent, daemonSent>>
    /\ UNCHANGED exceptExchange

\* The client sends a byte on the upgraded connection.
ClientSends(b) ==
    /\ pc = "tunneling"
    /\ Len(clientSent) < MaxTunnelBytes
    /\ clientSent' = Append(clientSent, b)
    /\ downIn' = Append(downIn, b)
    /\ UNCHANGED <<pc, req, config, bodySrc, dockerReq, dockerRes, res,
                   downWire, upWire, upIn, daemonSent>>
    /\ UNCHANGED exceptExchange

\* The daemon sends a byte on the upgraded connection.
DaemonSends(b) ==
    /\ pc = "tunneling"
    /\ Len(daemonSent) < MaxTunnelBytes
    /\ daemonSent' = Append(daemonSent, b)
    /\ upIn' = Append(upIn, b)
    /\ UNCHANGED <<pc, req, config, bodySrc, dockerReq, dockerRes, res,
                   downWire, upWire, downIn, clientSent>>
    /\ UNCHANGED exceptExchange

\* socket.pipe(dockerSocket)
PipeSocketToDocker ==
    /\ pc = "tunneling"
    /\ downIn # <<>>
    /\ upWire' = Append(upWire, Head(downIn))
    /\ downIn' = Tail(downIn)
    /\ UNCHANGED <<pc, req, config, bodySrc, dockerReq, dockerRes, res,
                   downWire, upIn, clientSent, daemonSent>>
    /\ UNCHANGED exceptExchange

\* dockerSocket.pipe(socket)
PipeDockerToSocket ==
    /\ pc = "tunneling"
    /\ upIn # <<>>
    /\ downWire' = Append(downWire, Head(upIn))
    /\ upIn' = Tail(upIn)
    /\ UNCHANGED <<pc, req, config, bodySrc, dockerReq, dockerRes, res,
                   upWire, downIn, clientSent, daemonSent>>
    /\ UNCHANGED exceptExchange

ProxyNext ==
    \/ \E m \in Methods, u \in Urls, h \in HeaderSets, b \in Bodies :
            ClientRequest(m, u, h, b)
    \/ HandleRequest
    \/ BodyBuffered
    \/ \E o \in InspectOutcomes : InspectDone(o)
    \/ HandleUpgrade
    \/ PipeRequestBody
    \/ \E r \in Responses : DaemonResponds(r)
    \/ PipeResponseBody
    \/ \E r \in UpgradeResponses, dh \in Heads : DaemonUpgrades(r, dh)
    \/ \E b \in Bytes : ClientSends(b)
    \/ \E b \in Bytes : DaemonSends(b)
    \/ PipeSocketToDocker
    \/ PipeDockerToSocket

\* ------------------------------------------------------------------ proxy: connection faults

\* How a connection of the exchange can fail: an 'error' event, the peer's
\* end of stream ('end'), or a close without either ('close' only).
FaultKinds == {"error", "end", "close"}

\* res.end(): a graceful end instead of a destroy.
endsDownstream(state) ==
    "ended"

\* res.destroy() / socket.destroy() in the 'error' listeners of dockerReq and
\* dockerSocket
destroysDownstream(state) ==
    "destroyed"

\* dockerRes.destroy() / dockerReq.destroy() in the 'error' listeners of res
\* and socket
destroysUpstream(state) ==
    "destroyed"

\* Whether an 'error' listener is attached to the downstream side: res gets
\* one inside the 'response' handler, socket at the start of the upgrade
\* handler.
downstreamErrorListener ==
    \/ req.kind = "request" /\ pc = "relaying"
    \/ req.kind = "upgrade" /\ pc \in {"sent", "unanswered", "tunneling"}

\* The downstream connection fails. In a tunnel, socket.pipe(dockerSocket)
\* ends the upstream socket on 'end'; nothing listens for 'close'.
DownstreamFault(how) ==
    /\ fault.side = "none"
    /\ downSock = "open"
    /\ pc \in {"received", "buffering", "inspecting", "sent", "relaying",
               "unanswered", "tunneling"}
    /\ how # "error" => pc = "tunneling"
    /\ fault' = [side |-> "down", how |-> how, at |-> pc]
    /\ downSock' = "closed"
    /\ upSock' =
        IF how = "error" /\ downstreamErrorListener THEN destroysUpstream(upSock)
        ELSE IF how = "end" THEN "ended"
        ELSE upSock
    /\ UNCHANGED <<proxyVars, exceptProxy>>

\* The upstream connection fails after sendToDocker: dockerReq emits 'error'
\* (dockerSocket in a tunnel). In a tunnel, dockerSocket.pipe(socket) ends
\* the downstream socket on 'end'; nothing listens for 'close'.
UpstreamFault(how) ==
    /\ fault.side = "none"
    /\ dockerReq.sent
    /\ upSock = "open"
    /\ pc \in {"sent", "relaying", "unanswered", "tunneling"}
    /\ how # "error" => pc = "tunneling"
    /\ fault' = [side |-> "up", how |-> how, at |-> pc]
    /\ upSock' = "closed"
    /\ downSock' =
        IF how = "error" THEN destroysDownstream(downSock)
        ELSE IF how = "end" THEN "ended"
        ELSE downSock
    /\ UNCHANGED <<proxyVars, exceptProxy>>

\* The handlers of the exchange; after a fault the exchange is looked at as
\* its listeners left it.
ExchangeNext ==
    \/ \E m \in Methods, u \in Urls, h \in HeaderSets, b \in Bodies :
            ClientRequest(m, u, h, b)
    \/ HandleRequest
    \/ BodyBuffered
    \/ \E o \in InspectOutcomes : InspectDone(o)
    \/ HandleUpgrade
    \/ PipeRequestBody
    \/ \E r \in Responses : DaemonResponds(r)
    \/ PipeResponseBody
    \/ \E r \in UpgradeResponses, dh \in Heads : DaemonUpgrades(r, dh)

FaultsNext ==
    \/ fault.side = "none" /\ ExchangeNext
    \/ \E how \in FaultKinds : DownstreamFault(how)
    \/ \E how \in FaultKinds : UpstreamFault(how)

\* ------------------------------------------------------------------ createDockerProxy: startup

Ports == 1..MaxPorts
Tasks == 1..MaxStarts
NoTask == 0

Platforms == {"win32", "linux"}
\* How deleteFile(proxyListenPath) settles.
DeleteOutcomes == {"ok", "ENOENT", "EACCES"}

\* if (process.platform !== 'win32')
deletesFirst(p) ==
    p # "win32"

\* A deletion whose failure is not caught.
deleteUncaught(outcome) ==
    IF outcome = "ok" THEN "binding" ELSE "failed"

\* await deleteFile(proxyListenPath).catch(() => {})
deleteCaught(outcome) ==
    "binding"

\* What deleting the listen path can yield, given what is there.
PossibleDeletes(f) ==
    IF f = "present" THEN {"ok", "EACCES"} ELSE {"ENOENT"}

UnusedTask ==
    [port |-> 0, pc |-> "unused", deleted |-> "none", listenFailed |-> FALSE,
     proxy |-> "none"]

PairInit ==
    /\ platform \in Platforms
    /\ mock = [p \in Ports |-> "stopped"]
    /\ file \in [Ports -> {"absent", "present"}]
    /\ tasks = [t \in Tasks |-> UnusedTask]
    /\ dockerProxies = [p \in Ports |-> NoTask]
    /\ shutdown = FALSE

\* standalone.on('mock-server-started', async (server) => ...) up to the first
\* await inside createDockerProxy.
MockServerStarted(port, t) ==
    /\ ~shutdown
    /\ mock[port] = "stopped"
    /\ tasks[t].pc = "unused"
    /\ \A u \in Tasks : u < t => tasks[u].pc # "unused"
    /\ mock' = [mock EXCEPT ![port] = "running"]
    /\ tasks' = [tasks EXCEPT ![t] =
            [UnusedTask EXCEPT !.port = port,
                               !.pc = IF deletesFirst(platform) THEN "deleting"
                                      ELSE "binding"]]
    /\ UNCHANGED <<platform, file, dockerProxies, shutdown>>
    /\ UNCHANGED exceptPair

\* await deleteFile(proxyListenPath).catch(() => {})
DeleteDone(t, outcome) ==
    /\ tasks[t].pc = "deleting"
    /\ outcome \in PossibleDeletes(file[tasks[t].port])
    /\ tasks' = [tasks EXCEPT ![t].pc = deleteCaught(outcome),
                              ![t].deleted = outcome]
    /\ file' = IF outcome = "ok" THEN [file EXCEPT ![tasks[t].port] = "absent"]
               ELSE file
    /\ UNCHANGED <<platform, mock, dockerProxies, shutdown>>
    /\ UNCHANGED exceptPair

\* await new Promise(... server.listen(proxyListenPath, resolve);
\* server.on('error', reject) ...), return destroyable(server), and the
\* assignment dockerProxies[server.port] = ... that awaits it.
ListenDone(t, ok) ==
    /\ tasks[t].pc = "binding"
    /\ IF ok
       THEN /\ tasks' = [tasks EXCEPT ![t].pc = "done", ![t].proxy = "listening"]
            /\ dockerProxies' = [dockerProxies EXCEPT ![tasks[t].port] = t]
            /\ file' = IF platform = "win32" THEN file
                       ELSE [file EXCEPT ![tasks[t].port] = "present"]
       ELSE /\ tasks' = [tasks EXCEPT ![t].pc = "failed", ![t].listenFailed = TRUE]
            /\ UNCHANGED <<dockerProxies, file>>
    /\ UNCHANGED <<platform, mock, shutdown>>
    /\ UNCHANGED exceptPair

\* standalone.on('mock-server-stopping', (server) => ...)
MockServerStopping(port) ==
    /\ ~shutdown
    /\ mock[port] = "running"
    /\ mock' = [mock EXCEPT ![port] = "stopped"]
    /\ IF dockerProxies[port] # NoTask
       THEN /\ tasks' = [tasks EXCEPT ![dockerProxies[port]].proxy = "destroyed"]
            /\ dockerProxies' = [dockerProxies EXCEPT ![port] = NoTask]
       ELSE UNCHANGED <<tasks, dockerProxies>>
    /\ UNCHANGED <<platform, file, shutdown>>
    /\ UNCHANGED exceptPair

\* addShutdownHandler(() => Promise.all(Object.values(dockerProxies).map(
\*     (proxy) => proxy.destroy())))
Shutdown ==
    /\ ~shutdown
    /\ shutdown' = TRUE
    /\ tasks' = [t \in Tasks |->
            IF \E p \in Ports : dockerProxies[p] = t
            THEN [tasks[t] EXCEPT !.proxy = "destroyed"] ELSE tasks[t]]
    /\ UNCHANGED <<platform, mock, file, dockerProxies>>
    /\ UNCHANGED exceptPair

PairNext ==
    \/ \E port \in Ports, t \in Tasks : MockServerStarted(port, t)
    \/ \E t \in Tasks, o \in DeleteOutcomes : DeleteDone(t, o)
    \/ \E t \in Tasks, ok \in BOOLEAN : ListenDone(t, ok)
    \/ \E port \in Ports : MockServerStopping(port)
    \/ Shutdown

\* ------------------------------------------------------------------ getLauncher

NoPromise == 0

\* A promise that getBrowserLauncher(browserConfig) has just returned.
\* role: "initial" when getLauncher created it, "reloaded" when the cache
\* update did; update: where the background update chained to it stands.
NewPromise(role) ==
    [role |-> role, state |-> "pending", update |-> "none"]

\* The handlers getLauncher attaches to a promise it creates: launcher.catch
\* is called inside if (!launcher) only, on the promise created there.
resetOnReject(role) ==
    role = "initial"

\* function getLauncher(configPath), as its caller sees it: the promise it
\* returns and the state that promise is in at the return.
GetLauncher ==
    /\ Len(returned) < MaxCalls
    /\ IF launcher = NoPromise
       THEN /\ Len(promises) < MaxPromises
            /\ promises' = Append(promises, NewPromise("initial"))
            /\ launcher' = Len(promises) + 1
            /\ returned' = Append(returned,
                    [promise |-> Len(promises) + 1, state |-> "pending"])
       ELSE /\ returned' = Append(returned,
                    [promise |-> launcher, state |-> promises[launcher].state])
            /\ UNCHANGED <<launcher, promises>>
    /\ UNCHANGED exceptLauncher

\* The promise settles and the handlers attached to it run: launcher.then(...)
\* up to await delay(2000) when it resolves, launcher.catch(...) when it
\* rejects.
LauncherSettles(i, ok) ==
    /\ i \in 1..Len(promises)
    /\ promises[i].state = "pending"
    /\ IF ok
       THEN /\ promises' = [promises EXCEPT ![i].state = "resolved",
                    ![i].update = IF promises[i].role = "initial" THEN "delaying"
                                  ELSE "none"]
            /\ UNCHANGED launcher
       ELSE /\ promises' = [promises EXCEPT ![i].state = "rejected"]
            /\ launcher' = IF resetOnReject(promises[i].role) THEN NoPromise
                           ELSE launcher
    /\ UNCHANGED returned
    /\ UNCHANGED exceptLauncher

\* await delay(2000)
DelayDone(i) ==
    /\ i \in 1..Len(promises)
    /\ promises[i].update = "delaying"
    /\ promises' = [promises EXCEPT ![i].update = "updating"]
    /\ UNCHANGED <<launcher, returned>>
    /\ UNCHANGED exceptLauncher

\* try { await updateBrowserCache(browserConfig);
\*       launcher = getBrowserLauncher(browserConfig); }
\* catch (e) { reportError(e) }
UpdateDone(i, ok) ==
    /\ i \in 1..Len(promises)
    /\ promises[i].update = "updating"
    /\ IF ok
       THEN /\ Len(promises) < MaxPromises
            /\ promises' = Append([promises EXCEPT ![i].update = "reloaded"],
                                  NewPromise("reloaded"))
            /\ launcher' = Len(promises) + 1
       ELSE /\ promises' = [promises EXCEPT ![i].update = "failed"]
            /\ UNCHANGED launcher
    /\ UNCHANGED returned
    /\ UNCHANGED exceptLauncher

LauncherNext ==
    \/ GetLauncher
    \/ \E i \in 1..MaxPromises, ok \in BOOLEAN : LauncherSettles(i, ok)
    \/ \E i \in 1..MaxPromises : DelayDone(i)
    \/ \E i \in 1..MaxPromises, ok \in BOOLEAN : UpdateDone(i, ok)

\* ------------------------------------------------------------------ specifications

LauncherInit ==
    /\ launcher = NoPromise
    /\ promises = <<>>
    /\ returned = <<>>

\* Outside the pairing of proxies with mock servers, one platform is looked at.
PairIdle ==
    /\ platform = "linux"
    /\ mock = [p \in Ports |-> "stopped"]
    /\ file = [p \in Ports |-> "absent"]
    /\ tasks = [t \in Tasks |-> UnusedTask]
    /\ dockerProxies = [p \in Ports |-> NoTask]
    /\ shutdown = FALSE

Init == TrackerInit /\ ProxyInit /\ PairIdle /\ LauncherInit

Next == TrackerNext

Spec == Init /\ [][Next]_vars

\* The scheduling of the event loop: a pending 'close' event is delivered;
\* nothing makes a client close its connection.
SpecLive ==
    /\ Init
    /\ [][Next]_vars
    /\ \A c \in Conns : WF_vars(CloseEvent(c))
    /\ WF_vars(ListenerCloseEvent)

\* One exchange through the proxy, from the request to the relayed response or
\* the tunnel. createDockerProxy listens on a pipe or a domain socket.
ProxyListening == Init /\ listenKind = "ipc"

SpecProxy == ProxyListening /\ [][ProxyNext]_vars

\* One exchange through the proxy in which a connection can fail.
SpecFaults == ProxyListening /\ [][FaultsNext]_vars

\* The docker proxies that index.ts creates and destroys with the mock servers.
PairStart ==
    TrackerInit /\ listenKind = "ipc" /\ ProxyInit /\ PairInit /\ LauncherInit

SpecPair == PairStart /\ [][PairNext]_vars

\* The launcher cache of getLauncher.
SpecLauncher == ProxyListening /\ [][LauncherNext]_vars

\* ------------------------------------------------------------------ claims on the tracker

\* C1: a destroy() call force-closes every connection that was open when it
\* was called, also when several connections are open at once.
C1_DestroyClosesEveryOpenConnection ==
    \A i \in 1..Len(calls) : calls[i].openAtCall \subseteq calls[i].destroyedByCall

\* C2: every accepted connection that has not closed has its own entry in the
\* connections map; no accept or close of another connection loses it.
C2_EveryOpenConnectionTracked ==
    \A c \in Conns : sock[c] = "open" => connections[remote[c]] = c

\* C3 as stated: every entry of the map refers to a currently open socket, so
\* no socket is force-closed twice.
C3_EntriesAreOpenSockets ==
    /\ \A k \in Keys : connections[k] # NoConn => sock[connections[k]] = "open"
    /\ \A c \in Conns : destroyCalls[c] <= 1

\* C3 amended: every entry of the map refers to a socket whose 'close' event
\* has not fired yet (open, or destroyed with its 'close' pending), stored
\* under that socket's own key.
C3_EntriesNotYetClosed ==
    \A k \in Keys : connections[k] # NoConn =>
        /\ sock[connections[k]] \in {"open", "closing"}
        /\ remote[connections[k]] = k

\* An entry still in the map for a socket that destroy() has force-closed twice.
C3_Witness ==
    \E k \in Keys :
        /\ connections[k] # NoConn
        /\ sock[connections[k]] = "closing"
        /\ destroyCalls[connections[k]] = 2

\* C8: destroy() fails exactly when the listener's close step reported an
\* error and succeeds otherwise, never settles before that step has signalled,
\* and in both cases every connection tracked at the call was force-closed.
C8_DestroyFollowsListenerClose ==
    \A i \in 1..Len(calls) :
        /\ \A c \in calls[i].trackedAtCall : destroyCalls[c] >= 1 /\ sock[c] # "open"
        /\ calls[i].state # "pending" => calls[i].closeSignalled
        /\ calls[i].closeSignalled => calls[i].state = settle(calls[i].closeErr)
        /\ calls[i].state = "rejected" => calls[i].closeErr
        /\ calls[i].state = "resolved" => ~calls[i].closeErr

\* One destroy() resolved and another rejected, each with tracked connections.
C8_Witness ==
    /\ \E i \in 1..Len(calls) :
            calls[i].state = "resolved" /\ calls[i].trackedAtCall # {}
    /\ \E i \in 1..Len(calls) :
            calls[i].state = "rejected" /\ calls[i].trackedAtCall # {}

\* C9: once destroy() is called it eventually settles, whatever the number of
\* connections open at the call, without any client closing on its own.
C9_DestroyEventuallySettles ==
    (Len(calls) >= 1) ~> (Len(calls) >= 1 /\ calls[1].state # "pending")

\* C10: a second destroy() does not throw for connections already removed
\* from the map; if it fails, it fails with the listener-close error only.
C10_SecondDestroyDoesNotThrow ==
    \A i \in 2..Len(calls) :
        /\ ~calls[i].threw
        /\ calls[i].state = "rejected" => calls[i].closeErr /\ calls[i].closeSignalled

\* A second destroy() made after the entries of the first were removed, settled.
C10_Witness ==
    /\ Len(calls) = 2
    /\ calls[1].trackedAtCall # {}
    /\ calls[2].trackedAtCall = {}
    /\ calls[2].state # "pending"

\* ------------------------------------------------------------------ claims on the proxy

\* C4: for every request on a create-container path, the body the daemon
\* receives is the serialized transformContainerCreationConfig of the parsed
\* client body; the client's original bytes never reach the daemon.
C4_CreateBodyIsTransformed ==
    LET original == Concat(req.sentBody)
        expected == JSONstringify(transformContainerCreationConfig(
                        JSONparse(original).value, config.imageConfig,
                        [interceptionType |-> "mount", certPath |-> certPath,
                         proxyPort |-> proxyPort]))
    IN (/\ dockerReq.sent
        /\ CREATE_CONTAINER_MATCHER(pathname(req.url))
        /\ JSONparse(original).ok) =>
            /\ dockerReq.body \o bodySrc = <<expected>>
            /\ Len(upWire) >= Len(original) =>
                    SubSeq(upWire, 1, Len(original)) # original

\* C5: for every request on another path the relay changes nothing: the
\* daemon gets the same method, the path minus the internal prefix, the
\* headers minus content-length and the body bytes of the request in order;
\* the client gets the daemon's status code, status message, headers and body
\* bytes as the daemon sent them.
C5_NonCreateRelayedUnchanged ==
    LET notContentLength(h) == h[1] # "content-length"
    IN ~CREATE_CONTAINER_MATCHER(pathname(req.url)) =>
        /\ dockerReq.sent =>
            /\ dockerReq.method = req.method
            /\ dockerReq.path =
                    IF Len(req.url) >= 2 /\ SubSeq(req.url, 1, 2) = <<"/", "qwe">>
                    THEN SubSeq(req.url, 3, Len(req.url)) ELSE req.url
            /\ dockerReq.headers = SelectSeq(req.headers, notContentLength)
            /\ dockerReq.body \o bodySrc = req.body
            /\ dockerReq.ended => dockerReq.body = req.body
        /\ res.head # "none" =>
            /\ dockerRes.arrived
            /\ res.statusCode = dockerRes.statusCode
            /\ res.statusMessage = dockerRes.statusMessage
            /\ res.headers = dockerRes.headers
            /\ res.body \o dockerRes.remaining = dockerRes.body
            /\ res.ended => res.body = dockerRes.body

\* A request with the internal prefix, a content-length and a body, relayed
\* to the end with a response body.
C5_Witness ==
    /\ pc = "done"
    /\ ~CREATE_CONTAINER_MATCHER(pathname(req.url))
    /\ Len(req.url) >= 2
    /\ req.url[2] = "qwe"
    /\ \E i \in 1..Len(req.headers) : req.headers[i][1] = "content-length"
    /\ Len(req.body) = 2
    /\ dockerReq.ended
    /\ res.ended
    /\ Len(res.body) = 2

\* C6: on an upgraded exchange the client receives the status line and the
\* headers ending in a blank line, then the upstream head, then every byte the
\* upstream socket sends; the upstream socket receives the downstream head,
\* then every byte the client sends; nothing lost, duplicated or reordered.
C6_TunnelPreservesBytes ==
    pc = "tunneling" =>
        /\ downWire \o upIn =
                <<"HTTP/1.1 ", ToString(dockerRes.statusCode), " ",
                  dockerRes.statusMessage, "\r\n">>
                \o headerLines(dockerRes.headers) \o <<"\r\n">>
                \o dockerRes.head \o daemonSent
        /\ upWire \o downIn = req.head \o clientSent

\* A tunnel with heads on both sides whose bytes have all been delivered.
C6_Witness ==
    /\ pc = "tunneling"
    /\ req.head # <<>>
    /\ dockerRes.head # <<>>
    /\ Len(clientSent) = MaxTunnelBytes
    /\ Len(daemonSent) = MaxTunnelBytes
    /\ clientSent[1] # clientSent[2]
    /\ daemonSent[1] # daemonSent[2]
    /\ downIn = <<>>
    /\ upIn = <<>>

\* C7: the head of a relayed response is sent downstream when the upstream
\* head arrives, before any body byte, also when no body byte ever comes and
\* the body never ends.
C7_HeadFlushedBeforeBody ==
    /\ (req.kind = "request" /\ dockerRes.arrived) => res.head = "sent"
    /\ res.body # <<>> => res.head = "sent"

\* A relayed response whose upstream sends no body byte and never ends.
C7_Witness ==
    /\ pc = "relaying"
    /\ res.head = "sent"
    /\ res.body = <<>>
    /\ dockerRes.body = <<>>
    /\ ~dockerRes.ends

\* C11: on an intercepted create request a failed image lookup never fails
\* the request locally: the transformer gets absent image metadata and its
\* output is forwarded to the daemon as the body.
C11_LookupFailureStillForwards ==
    config.lookupFailed =>
        /\ pc # "failed"
        /\ dockerReq.sent
        /\ config.imageConfig = "undefined"
        /\ dockerReq.body \o bodySrc =
                <<JSONstringify(transformContainerCreationConfig(
                    JSONparse(Concat(req.sentBody)).value, "undefined",
                    [interceptionType |-> "mount", certPath |-> certPath,
                     proxyPort |-> proxyPort]))>>

\* A create request whose image lookup failed and whose rewritten body has
\* reached the daemon in full.
C11_Witness ==
    /\ config.lookupFailed
    /\ dockerReq.ended
    /\ Len(dockerReq.body) = 1

\* C13: the create pattern is matched against the path that is forwarded
\* upstream (internal prefix stripped): no request reaches the daemon on a
\* path matching the pattern without having been intercepted.
C13_ForwardedCreateIsIntercepted ==
    (/\ req.kind = "request"
     /\ dockerReq.sent
     /\ CREATE_CONTAINER_MATCHER(pathname(dockerReq.path))) =>
        /\ CREATE_CONTAINER_MATCHER(pathname(stripPrefix(req.url)))
        /\ dockerReq.body \o bodySrc =
                <<JSONstringify(transformContainerCreationConfig(
                    JSONparse(Concat(req.sentBody)).value, config.imageConfig,
                    [interceptionType |-> "mount", certPath |-> certPath,
                     proxyPort |-> proxyPort]))>>

\* ------------------------------------------------------------------ claims on failures of an exchange

\* C14: when the body of an intercepted create request is not valid JSON,
\* nothing is forwarded to the daemon and the downstream response is brought
\* to a failed terminal state, not left pending.
C14_InvalidJsonFailsResponse ==
    (pc = "failed" /\ ~JSONparse(Concat(req.sentBody)).ok) =>
        /\ ~dockerReq.sent
        /\ downSock \in {"destroyed", "closed"}

\* C15: once the upstream has answered an exchange (response, upgrade or
\* connection error), the client sees a proxied response, an established
\* tunnel or an abruptly closed connection, also when a request received as
\* an upgrade is answered by an ordinary response.
C15_AnsweredExchangeHasOutcome ==
    (dockerRes.arrived \/ (fault.side = "up" /\ fault.how = "error")) =>
        \/ res.head = "sent"
        \/ pc = "tunneling"
        \/ downSock \in {"destroyed", "closed"}

\* C16: a downstream connection error at any point of an exchange, before the
\* upstream response as well as during the relay, destroys the upstream
\* request or response.
C16_DownstreamErrorDestroysUpstream ==
    (fault.side = "down" /\ fault.how = "error" /\ dockerReq.sent) =>
        upSock = "destroyed"

\* C17 as stated: an upstream connection error, whenever it occurs, forcibly
\* destroys the downstream side and the client is sent no partial response.
C17_UpstreamErrorNoPartialResponse ==
    (fault.side = "up" /\ fault.how = "error") =>
        /\ downSock = "destroyed"
        /\ req.kind = "request" => res.head = "none" /\ res.body = <<>>

\* C17 amended: an upstream connection error, whenever it occurs, forcibly
\* destroys the downstream side, never ends it gracefully; before the upstream
\* head arrived the client has been sent nothing, afterwards it has been sent
\* the head and an unmodified prefix of the body.
C17_UpstreamErrorDestroysDownstream ==
    (fault.side = "up" /\ fault.how = "error") =>
        /\ downSock = "destroyed"
        /\ ~res.ended
        /\ fault.at = "sent" => res.head = "none" /\ res.body = <<>> /\ downWire = <<>>
        /\ fault.at = "relaying" =>
            /\ res.head = "sent"
            /\ res.statusCode = dockerRes.statusCode
            /\ res.headers = dockerRes.headers
            /\ res.body \o dockerRes.remaining = dockerRes.body

\* An upstream error in the middle of a relayed body.
C17_Witness ==
    /\ fault.side = "up"
    /\ fault.how = "error"
    /\ fault.at = "relaying"
    /\ Len(res.body) = 1
    /\ Len(dockerRes.remaining) = 1
    /\ downSock = "destroyed"

\* C18: in the tunneling state, either socket closing or erroring (error,
\* end or plain close) leads to the other socket being destroyed; the tunnel
\* never stays with one side closed and the other open.
C18_TunnelNeverHalfOpen ==
    fault.at = "tunneling" =>
        /\ fault.side = "down" => upSock \in {"destroyed", "ended"}
        /\ fault.side = "up" => downSock \in {"destroyed", "ended"}

\* ------------------------------------------------------------------ claims on startup and pairing

\* The createDockerProxy calls that have got past the deletion step.
PastDeletion == {t \in Tasks : tasks[t].pc \in {"binding", "done", "failed"}}

\* C12: on a filesystem-socket platform createDockerProxy has attempted the
\* deletion of the listen path before it binds, whatever the deletion yields
\* the call goes on to bind, and the call fails only when listening failed; on
\* the named-pipe platform no deletion is attempted.
C12_OnlyListenFailsStartup ==
    \A t \in Tasks :
        /\ tasks[t].pc = "failed" => tasks[t].listenFailed
        /\ (platform # "win32" /\ t \in PastDeletion) => tasks[t].deleted # "none"
        /\ platform = "win32" => tasks[t].deleted = "none"

\* A proxy listens although deleting the stale socket file failed.
C12_Witness ==
    \E t \in Tasks :
        /\ tasks[t].deleted = "EACCES"
        /\ tasks[t].pc = "done"
        /\ tasks[t].proxy = "listening"

\* The createDockerProxy calls for a port that have not completed yet.
PendingCreation(port) ==
    {t \in Tasks : tasks[t].port = port /\ tasks[t].pc \in {"deleting", "binding"}}

\* C19: once a mock server has stopped and no proxy creation for its port is
\* pending, no proxy of that port is registered or listening, as long as the
\* process has not shut down.
C19_StoppedPortHasNoProxy ==
    \A port \in Ports :
        (~shutdown /\ mock[port] = "stopped" /\ PendingCreation(port) = {})
            => /\ dockerProxies[port] = NoTask
               /\ \A t \in Tasks : tasks[t].port = port => tasks[t].proxy # "listening"

\* ------------------------------------------------------------------ claims on the launcher

\* C20: no getLauncher call returns a launcher promise that has already
\* rejected, the initial one or the one reloaded after the cache update: the
\* rejection has reset the cache, and the call creates a fresh launcher.
C20_RejectedLauncherNotCached ==
    \A k \in 1..Len(returned) : returned[k].state # "rejected"

====
